---- MODULE Spec2Model ----
(***************************************************************************)
(* CountedEvent (src/octoprint/util/__init__.py, lines 302-338): a counter *)
(* guarded by a threading.Lock that drives a threading.Event.              *)
(*                                                                         *)
(* Every method is split at the points where another thread can run:       *)
(* taking the mutex, reading the counter, each assignment of               *)
(* _internal_set, the call on the event, leaving the `with` block.         *)
(* threading.Event is modelled by its flag and by the set of waiters that  *)
(* a set() has notified (Event.set is a notify_all; a notified waiter      *)
(* returns even when the flag is cleared again before it runs).            *)
(***************************************************************************)
EXTENDS Integers, FiniteSets, Sequences, TLC

\* ---------------------------------------------------------------- bounds
\* threads that exist, and threads that call under Spec (FairSpec: all of them)
NumThreads == 3
MaxCallers == 2
\* calls that are started in one behaviour of Spec, of FairSpec
MaxOps == 4
MaxFairOps == 3
\* largest ceiling, largest initial value
MaxCeil == 1
MaxInit == 1

Threads == 1..NumThreads
\* the thread that runs CountedEvent.__init__
Creator == 1
\* an optional value: None, or Some(x)
None == <<>>
Some(x) == <<x>>
Get(o) == o[1]
Free == 0
Ceilings == {None} \cup {Some(m) : m \in 0..MaxCeil}
InitValues == (-1)..MaxInit
\* wait(None), or wait(T) for a finite T
Timeouts == {None, Some("T")}

VARIABLES
    counter,    \* self._counter
    maxc,       \* self._max : None or Some(m), m >= 0
    event,      \* flag of self._event
    notified,   \* waiters of self._event released by a notify_all, not yet running
    mutex,      \* self._mutex : Free or the thread that holds it
    pc,         \* position of each thread
    op,         \* the method each thread is in
    val,        \* the argument `value` of _internal_set in each thread
    tmo,        \* the argument `timeout` of wait in each thread
    ret,        \* the value blocked() is returning in each thread
    initValue,  \* the argument `value` of __init__
    budget,     \* calls that may still be started
    callers,    \* the threads that call the methods
    \* history (never read by the methods)
    sat,        \* the counter as the step-by-step saturating rules give it
    net,        \* set() minus plain clear() since the last clear(True)
    hist,       \* the trailing run  set^sets clear^clears  and the counter it began at
    lastOp,     \* the last set/clear that completed
    start,      \* the counter when __init__ returned
    recording,  \* whether the history is kept (it is not under FairSpec)
    \* who called what (kept under WideSpec only)
    prev,       \* "wait" for a thread whose last call was a wait(None) that returned
    clearers,   \* the threads that have called clear()
    tracing     \* whether prev and clearers are kept

vars == <<counter, maxc, event, notified, mutex, pc, op, val, tmo, ret,
          initValue, budget, callers,
          sat, net, hist, lastOp, start, recording, prev, clearers, tracing>>

obj == <<counter, event, notified>>
ghost == <<sat, net, hist, lastOp, start>>
trace == <<prev, clearers>>
\* fixed by the constructor call and by the specification
config == <<maxc, initValue, callers, recording, tracing>>

Min(a, b) == IF a <= b THEN a ELSE b
Max(a, b) == IF a >= b THEN a ELSE b

\* the constructor has returned: the object is visible to the threads
constructed == op[Creator] # "init"

\* ------------------------------------------------------------ __init__
\* lines 305-308 have run; line 310 is about to call _internal_set(value)
InitWith(calls, who, rec, trc) ==
    /\ initValue \in InitValues
    /\ maxc \in Ceilings
    /\ counter = 0
    /\ event = FALSE
    /\ notified = {}
    /\ mutex = Free
    /\ pc = [t \in Threads |-> IF t = Creator THEN "is_assign" ELSE "idle"]
    /\ op = [t \in Threads |-> IF t = Creator THEN "init" ELSE "none"]
    /\ val = [t \in Threads |-> IF t = Creator THEN initValue ELSE 0]
    /\ tmo = [t \in Threads |-> None]
    /\ ret = [t \in Threads |-> None]
    /\ budget = calls
    /\ callers = who
    /\ sat = 0
    /\ net = 0
    /\ hist = [base |-> 0, sets |-> 0, clears |-> 0]
    /\ lastOp = "init"
    /\ start = 0
    /\ recording = rec
    /\ prev = [t \in Threads |-> "none"]
    /\ clearers = {}
    /\ tracing = trc

Init == InitWith(MaxOps, 1..MaxCallers, TRUE, FALSE)

\* --------------------------------------------------------------- calls
CanCall(t) == constructed /\ t \in callers /\ pc[t] = "idle" /\ budget > 0

\* def set(self): -- up to `with self._mutex`
CallSet(t) ==
    /\ CanCall(t)
    /\ pc' = [pc EXCEPT ![t] = "lock"]
    /\ op' = [op EXCEPT ![t] = "set"]
    /\ budget' = budget - 1
    /\ UNCHANGED <<obj, mutex, val, tmo, ret, ghost, config, trace>>

\* def clear(self, completely=False): -- up to `with self._mutex`
CallClear(t, completely) ==
    /\ CanCall(t)
    /\ pc' = [pc EXCEPT ![t] = "lock"]
    /\ op' = [op EXCEPT ![t] = IF completely THEN "cclear" ELSE "clear"]
    /\ budget' = budget - 1
    /\ UNCHANGED <<obj, mutex, val, tmo, ret, ghost, config>>
    /\ clearers' = IF tracing THEN clearers \cup {t} ELSE clearers
    /\ UNCHANGED prev

\* def blocked(self): -- up to `with self._mutex`
CallBlocked(t) ==
    /\ CanCall(t)
    /\ pc' = [pc EXCEPT ![t] = "lock"]
    /\ op' = [op EXCEPT ![t] = "blocked"]
    /\ ret' = [ret EXCEPT ![t] = None]
    /\ budget' = budget - 1
    /\ UNCHANGED <<obj, mutex, val, tmo, ghost, config, trace>>

\* def wait(self, timeout=None): -- up to self._event.wait(timeout)
CallWait(t, timeout) ==
    /\ CanCall(t)
    /\ pc' = [pc EXCEPT ![t] = "wait_call"]
    /\ op' = [op EXCEPT ![t] = "wait"]
    /\ tmo' = [tmo EXCEPT ![t] = timeout]
    /\ budget' = budget - 1
    /\ UNCHANGED <<obj, mutex, val, ret, ghost, config, trace>>

\* ----------------------------------------------------------- the mutex
\* (variant) the block is entered without excluding the other threads
Acquire_NoExclusion(t) ==
    /\ pc[t] = "lock"
    /\ mutex' = t
    /\ pc' = [pc EXCEPT ![t] = CASE op[t] = "set" -> "set_read"
                                 [] op[t] = "blocked" -> "blocked_read"
                                 [] OTHER -> "clear_read"]
    /\ UNCHANGED <<obj, op, val, tmo, ret, budget, ghost, config, trace>>

\* `with self._mutex:` -- entry
Acquire(t) ==
    /\ pc[t] = "lock"
    /\ mutex = Free
    /\ mutex' = t
    /\ pc' = [pc EXCEPT ![t] = CASE op[t] = "set" -> "set_read"
                                 [] op[t] = "blocked" -> "blocked_read"
                                 [] OTHER -> "clear_read"]
    /\ UNCHANGED <<obj, op, val, tmo, ret, budget, ghost, config, trace>>

\* (variant) set() raises a flag instead of counting: _internal_set(1)
SetRead_NotCounted(t) ==
    /\ pc[t] = "set_read"
    /\ val' = [val EXCEPT ![t] = 1]
    /\ pc' = [pc EXCEPT ![t] = "is_assign"]
    /\ UNCHANGED <<obj, mutex, op, tmo, ret, budget, ghost, config, trace>>

\* self._counter + 1, the argument of _internal_set in set()
SetRead(t) ==
    /\ pc[t] = "set_read"
    /\ val' = [val EXCEPT ![t] = counter + 1]
    /\ pc' = [pc EXCEPT ![t] = "is_assign"]
    /\ UNCHANGED <<obj, mutex, op, tmo, ret, budget, ghost, config, trace>>

\* (variant) clear() ignores `completely`
ClearRead_AlwaysOne(t) ==
    /\ pc[t] = "clear_read"
    /\ val' = [val EXCEPT ![t] = counter - 1]
    /\ pc' = [pc EXCEPT ![t] = "is_assign"]
    /\ UNCHANGED <<obj, mutex, op, tmo, ret, budget, ghost, config, trace>>

\* 0 or self._counter - 1, the argument of _internal_set in clear()
ClearRead(t) ==
    /\ pc[t] = "clear_read"
    /\ val' = [val EXCEPT ![t] = IF op[t] = "cclear" THEN 0 ELSE counter - 1]
    /\ pc' = [pc EXCEPT ![t] = "is_assign"]
    /\ UNCHANGED <<obj, mutex, op, tmo, ret, budget, ghost, config, trace>>

\* return self._counter == 0
BlockedRead(t) ==
    /\ pc[t] = "blocked_read"
    /\ ret' = [ret EXCEPT ![t] = Some(counter = 0)]
    /\ pc' = [pc EXCEPT ![t] = "unlock"]
    /\ UNCHANGED <<obj, mutex, op, val, tmo, budget, ghost, config, trace>>

\* ------------------------------------------------------- _internal_set
\* self._counter = value
InternalAssign(t) ==
    /\ pc[t] = "is_assign"
    /\ counter' = val[t]
    /\ pc' = [pc EXCEPT ![t] = "is_test"]
    /\ UNCHANGED <<event, notified, mutex, op, val, tmo, ret, budget, ghost,
                   config, trace>>

\* (variant) the test is off by one: if self._counter <= 1
IsCleared_OffByOne(c) == c <= 1

\* (variant) the test is strict: if self._counter < 0
IsCleared_Strict(c) == c < 0

\* if self._counter <= 0:
IsCleared(c) == c <= 0

\* (variant) the ceiling is never applied
Clamp_NoCeiling(c, m) == c

\* (variant) the ceiling is applied one too late: self._counter > self._max + 1
Clamp_Late(c, m) == IF m # None /\ c > Get(m) + 1 THEN Get(m) ELSE c

\* if self._max is not None and self._counter > self._max: self._counter = self._max
Clamp(c, m) == IF m # None /\ c > Get(m) THEN Get(m) ELSE c

\* (variant) the branch clears the event but leaves the counter as assigned
InternalZero_NoReset(t) ==
    /\ pc[t] = "is_test"
    /\ IsCleared(counter)
    /\ pc' = [pc EXCEPT ![t] = "ev_clear"]
    /\ UNCHANGED <<obj, mutex, op, val, tmo, ret, budget, ghost, config, trace>>

\* if self._counter <= 0: self._counter = 0
InternalZero(t) ==
    /\ pc[t] = "is_test"
    /\ IsCleared(counter)
    /\ counter' = 0
    /\ pc' = [pc EXCEPT ![t] = "ev_clear"]
    /\ UNCHANGED <<event, notified, mutex, op, val, tmo, ret, budget, ghost,
                   config, trace>>

\* else: the clamp at self._max
InternalClamp(t) ==
    /\ pc[t] = "is_test"
    /\ ~IsCleared(counter)
    /\ counter' = Clamp(counter, maxc)
    /\ pc' = [pc EXCEPT ![t] = "ev_set"]
    /\ UNCHANGED <<event, notified, mutex, op, val, tmo, ret, budget, ghost,
                   config, trace>>

\* self._event.clear()
EventClear(t) ==
    /\ pc[t] = "ev_clear"
    /\ event' = FALSE
    /\ pc' = [pc EXCEPT ![t] = "unlock"]
    /\ UNCHANGED <<counter, notified, mutex, op, val, tmo, ret, budget, ghost,
                   config, trace>>

\* self._event.set()
EventSet(t) ==
    /\ pc[t] = "ev_set"
    /\ event' = TRUE
    /\ notified' = notified \cup {w \in Threads : pc[w] = "wait_blocked"}
    /\ pc' = [pc EXCEPT ![t] = "unlock"]
    /\ UNCHANGED <<counter, mutex, op, val, tmo, ret, budget, ghost, config, trace>>

\* ------------------------------------------------------------- returns
\* __init__ returns
CtorReturn(t) ==
    /\ pc[t] = "unlock"
    /\ op[t] = "init"
    /\ pc' = [pc EXCEPT ![t] = "idle"]
    /\ op' = [op EXCEPT ![t] = "none"]
    /\ val' = [val EXCEPT ![t] = 0]
    /\ sat' = IF recording THEN counter ELSE sat
    /\ hist' = IF recording THEN [base |-> counter, sets |-> 0, clears |-> 0] ELSE hist
    /\ start' = IF recording THEN counter ELSE start
    /\ UNCHANGED <<obj, mutex, tmo, ret, budget, net, lastOp, config, trace>>

\* the history after the method of thread t has taken effect
SatAfter(t) ==
    CASE op[t] = "set" -> IF maxc = None THEN sat + 1 ELSE Min(Get(maxc), sat + 1)
      [] op[t] = "clear" -> Max(0, sat - 1)
      [] op[t] = "cclear" -> 0
      [] OTHER -> sat

NetAfter(t) ==
    CASE op[t] = "set" -> net + 1
      [] op[t] = "clear" -> net - 1
      [] op[t] = "cclear" -> 0
      [] OTHER -> net

HistAfter(t) ==
    CASE op[t] = "set" ->
            IF hist.clears > 0
            THEN [base |-> val[t] - 1, sets |-> 1, clears |-> 0]
            ELSE [hist EXCEPT !.sets = @ + 1]
      [] op[t] = "clear" -> [hist EXCEPT !.clears = @ + 1]
      [] op[t] = "cclear" -> [base |-> 0, sets |-> 0, clears |-> 0]
      [] OTHER -> hist

LastAfter(t) == IF op[t] = "blocked" THEN lastOp ELSE op[t]

\* `with self._mutex:` -- exit, and the method returns
Release(t) ==
    /\ pc[t] = "unlock"
    /\ op[t] # "init"
    /\ mutex' = Free
    /\ pc' = [pc EXCEPT ![t] = "idle"]
    /\ op' = [op EXCEPT ![t] = "none"]
    /\ val' = [val EXCEPT ![t] = 0]
    /\ sat' = IF recording THEN SatAfter(t) ELSE sat
    /\ net' = IF recording THEN NetAfter(t) ELSE net
    /\ hist' = IF recording THEN HistAfter(t) ELSE hist
    /\ lastOp' = IF recording THEN LastAfter(t) ELSE lastOp
    /\ ret' = [ret EXCEPT ![t] = None]
    /\ UNCHANGED <<obj, tmo, budget, start, config>>
    /\ prev' = IF tracing THEN [prev EXCEPT ![t] = "none"] ELSE prev
    /\ UNCHANGED clearers

\* ---------------------------------------------------------------- wait
\* (variant) wait() takes the mutex and blocks while holding it
WaitEnter_HoldingMutex(t) ==
    /\ pc[t] = "wait_call"
    /\ mutex = Free
    /\ mutex' = IF event THEN Free ELSE t
    /\ pc' = [pc EXCEPT ![t] = IF event THEN "idle" ELSE "wait_blocked"]
    /\ op' = [op EXCEPT ![t] = IF event THEN "none" ELSE "wait"]
    /\ tmo' = [tmo EXCEPT ![t] = IF event THEN None ELSE @]
    /\ UNCHANGED <<obj, val, ret, budget, ghost, config>>
    /\ prev' = IF tracing /\ event
                THEN [prev EXCEPT ![t] = IF tmo[t] = None THEN "wait" ELSE "none"]
                ELSE prev
    /\ UNCHANGED clearers

\* self._event.wait(timeout): the flag is set -> return; else join the waiters
WaitEnter(t) ==
    /\ pc[t] = "wait_call"
    /\ pc' = [pc EXCEPT ![t] = IF event THEN "idle" ELSE "wait_blocked"]
    /\ op' = [op EXCEPT ![t] = IF event THEN "none" ELSE "wait"]
    /\ tmo' = [tmo EXCEPT ![t] = IF event THEN None ELSE @]
    /\ UNCHANGED <<obj, mutex, val, ret, budget, ghost, config>>
    /\ prev' = IF tracing /\ event
                THEN [prev EXCEPT ![t] = IF tmo[t] = None THEN "wait" ELSE "none"]
                ELSE prev
    /\ UNCHANGED clearers

\* (variant) a released waiter takes one signal with it, as a semaphore would
WaitWake_Consumes(t) ==
    /\ pc[t] = "wait_blocked"
    /\ t \in notified
    /\ notified' = notified \ {t}
    /\ counter' = counter - 1
    /\ pc' = [pc EXCEPT ![t] = "idle"]
    /\ op' = [op EXCEPT ![t] = "none"]
    /\ tmo' = [tmo EXCEPT ![t] = None]
    /\ UNCHANGED <<event, mutex, val, ret, budget, ghost, config>>
    /\ prev' = IF tracing THEN [prev EXCEPT ![t] = IF tmo[t] = None THEN "wait" ELSE "none"]
                ELSE prev
    /\ UNCHANGED clearers

\* a notified waiter runs again and wait() returns
WaitWake(t) ==
    /\ pc[t] = "wait_blocked"
    /\ t \in notified
    /\ notified' = notified \ {t}
    /\ pc' = [pc EXCEPT ![t] = "idle"]
    /\ op' = [op EXCEPT ![t] = "none"]
    /\ tmo' = [tmo EXCEPT ![t] = None]
    /\ UNCHANGED <<counter, event, mutex, val, ret, budget, ghost, config>>
    /\ prev' = IF tracing THEN [prev EXCEPT ![t] = IF tmo[t] = None THEN "wait" ELSE "none"]
                ELSE prev
    /\ UNCHANGED clearers

\* (variant) an expired timeout returns only when the flag is set
WaitTimeout_Rewaits(t) ==
    /\ pc[t] = "wait_blocked"
    /\ tmo[t] # None
    /\ event
    /\ notified' = notified \ {t}
    /\ pc' = [pc EXCEPT ![t] = "idle"]
    /\ op' = [op EXCEPT ![t] = "none"]
    /\ tmo' = [tmo EXCEPT ![t] = None]
    /\ UNCHANGED <<counter, event, mutex, val, ret, budget, ghost, config>>
    /\ prev' = IF tracing THEN [prev EXCEPT ![t] = IF tmo[t] = None THEN "wait" ELSE "none"]
                ELSE prev
    /\ UNCHANGED clearers

\* the timeout of a waiter expires and wait() returns
WaitTimeout(t) ==
    /\ pc[t] = "wait_blocked"
    /\ tmo[t] # None
    /\ notified' = notified \ {t}
    /\ pc' = [pc EXCEPT ![t] = "idle"]
    /\ op' = [op EXCEPT ![t] = "none"]
    /\ tmo' = [tmo EXCEPT ![t] = None]
    /\ UNCHANGED <<counter, event, mutex, val, ret, budget, ghost, config>>
    /\ prev' = IF tracing THEN [prev EXCEPT ![t] = IF tmo[t] = None THEN "wait" ELSE "none"]
                ELSE prev
    /\ UNCHANGED clearers

\* ------------------------------------------------------- specification
\* one step of thread t inside a method
Step(t) ==
    \/ Acquire(t)
    \/ SetRead(t)
    \/ ClearRead(t)
    \/ BlockedRead(t)
    \/ InternalAssign(t)
    \/ InternalZero(t)
    \/ InternalClamp(t)
    \/ EventClear(t)
    \/ EventSet(t)
    \/ CtorReturn(t)
    \/ Release(t)
    \/ WaitEnter(t)
    \/ WaitWake(t)

Next ==
    \/ \E t \in Threads : CallSet(t)
    \/ \E t \in Threads, completely \in BOOLEAN : CallClear(t, completely)
    \/ \E t \in Threads : CallBlocked(t)
    \/ \E t \in Threads, timeout \in Timeouts : CallWait(t, timeout)
    \/ \E t \in Threads : Step(t)
    \/ \E t \in Threads : WaitTimeout(t)

Spec == Init /\ [][Next]_vars

\* Every thread that can take a step inside a method is eventually scheduled,
\* and a finite timeout eventually expires.  No thread is obliged to call.
Fairness ==
    \A t \in Threads : WF_vars(Step(t) \/ WaitTimeout(t))

\* the fair behaviours: CountedEvent() with its defaults, value=0 and max=None
InitFair == InitWith(MaxFairOps, Threads, FALSE, FALSE) /\ initValue = 0 /\ maxc = None

FairSpec == InitFair /\ [][Next]_vars /\ Fairness

\* every thread calls, on every construction; who called what is kept
InitWide == InitWith(MaxFairOps, Threads, FALSE, TRUE)

WideSpec == InitWide /\ [][Next]_vars

\* ------------------------------------------------------------ vocabulary
\* thread t is between `with self._mutex:` and the end of the block
InCS(t) ==
    /\ op[t] \in {"set", "clear", "cclear", "blocked"}
    /\ pc[t] \in {"set_read", "clear_read", "blocked_read", "is_assign", "is_test",
                  "ev_clear", "ev_set", "unlock"}

\* the object is published and no set()/clear()/blocked() is half-applied
Quiet == constructed /\ mutex = Free

TypeOK ==
    /\ counter \in Int
    /\ event \in BOOLEAN
    /\ notified \subseteq Threads
    /\ mutex \in {Free} \cup Threads

\* ================================================================ claims

\* C1 (as stated): whenever the mutex is free, for every construction the
\* spec allows (max = 0 included), the event is signaled iff counter > 0.
C1_SignaledIffPositive ==
    Quiet => (event <=> counter > 0)

\* C2 (as stated): starting at counter 0, the counter after any sequence of
\* calls is max(0, min(max_ceiling, net)), net = set() minus plain clear()
\* since the last clear(completely=True).
C2_ClampOfNet ==
    (Quiet /\ start = 0) =>
        counter = Max(0, IF maxc = None THEN net ELSE Min(Get(maxc), net))

\* C2 (amended): the counter after any sequence of calls is what the calls give
\* when each is applied in turn to the counter before it: set() takes c to
\* min(max, c + 1) (c + 1 without a ceiling), plain clear() takes c to
\* max(0, c - 1), clear(completely=True) takes c to 0.
C2_SaturatingSteps ==
    Quiet => counter = sat

\* clear() at 0 and then set(): net is 0 and the counter is 1
C2_Witness ==
    /\ Quiet /\ start = 0
    /\ lastOp = "set" /\ hist.base = 0 /\ hist.sets = 1
    /\ net <= 0 /\ counter = 1

\* C3: every thread blocked in wait(None) when a set() completes eventually
\* returns from wait(), whatever the other threads call afterwards.
C3_SetReleasesEveryWaiter ==
    \A t \in Threads :
        (/\ pc[t] = "wait_blocked" /\ tmo[t] = None
         /\ \E u \in Threads : pc[u] = "unlock" /\ op[u] = "set")
            ~> (pc[t] # "wait_blocked")

\* two threads are blocked in wait(None) while a third one completes a set()
C3_Witness ==
    /\ Cardinality({t \in Threads : pc[t] = "wait_blocked" /\ tmo[t] = None}) >= 2
    /\ \E u \in Threads : pc[u] = "unlock" /\ op[u] = "set"

\* C4: at most one thread is inside the critical section of set(), clear() or
\* blocked(); and after k set() calls in a row on an unbounded CountedEvent
\* whose counter was 0, with no clear() taking effect among them, the counter
\* is exactly k.
C4_MutualExclusionNoLostUpdate ==
    /\ Cardinality({t \in Threads : InCS(t)}) <= 1
    /\ (Quiet /\ maxc = None /\ hist.base = 0 /\ hist.clears = 0)
           => counter = hist.sets

\* several set() calls have completed from 0 while another set() waits for
\* the mutex
C4_Witness ==
    /\ Quiet /\ maxc = None /\ hist.base = 0 /\ hist.clears = 0
    /\ hist.sets >= 2 /\ counter = hist.sets
    /\ \E u \in Threads : pc[u] = "lock" /\ op[u] = "set"

\* the mutex is held only by a thread inside set(), clear() or blocked()
MutexHeldInsideOnly ==
    /\ mutex # Free => InCS(mutex)
    /\ \A t \in Threads :
           pc[t] \in {"idle", "lock", "wait_call", "wait_blocked"} => mutex # t

\* C5: a thread in wait() never holds the mutex and a thread that has returned
\* does not hold it; every set(), clear() or blocked() that was called
\* eventually returns.
C5_WaitHoldsNoLock ==
    /\ []MutexHeldInsideOnly
    /\ \A t \in Threads : (pc[t] = "lock") ~> (pc[t] = "idle")

\* one thread is blocked in wait(), one holds the mutex, one asks for it
C5_Witness ==
    /\ \E w \in Threads : pc[w] = "wait_blocked" /\ tmo[w] = None
    /\ \E h \in Threads : mutex = h /\ InCS(h)
    /\ \E u \in Threads : pc[u] = "lock"

C7_CeilingRespected ==
    maxc # None =>
        /\ Quiet => counter <= Get(maxc)
        /\ \A t \in Threads : pc[t] = "blocked_read" => counter <= Get(maxc)
        /\ (constructed /\ counter > Get(maxc))
               => (mutex # Free /\ op[mutex] = "set" /\ pc[mutex] = "is_test")

\* set() has written max + 1 while a blocked() waits for the mutex
C7_Witness ==
    /\ maxc # None /\ constructed
    /\ counter = Get(maxc) + 1
    /\ \E u \in Threads : pc[u] = "lock" /\ op[u] = "blocked"

\* the completed calls end with at least max set() and then at least max clear()
SaturatedThenDrained ==
    /\ maxc # None
    /\ hist.sets >= Get(maxc)
    /\ hist.clears >= Get(maxc)

\* C8: a set() that found counter = max leaves counter = max; after max + j
\* set() followed by max plain clear() the counter is 0 and blocked() returns
\* true, and further clear() calls leave it at 0.
C8_Saturates ==
    /\ \A t \in Threads :
        /\ (maxc # None /\ pc[t] = "unlock" /\ op[t] = "set" /\ val[t] > Get(maxc))
               => counter = Get(maxc)
        /\ (SaturatedThenDrained /\ pc[t] = "unlock" /\ op[t] = "blocked")
               => ret[t] = Some(TRUE)
    /\ (Quiet /\ SaturatedThenDrained) => counter = 0

\* max = 1: set() twice, clear() once, and blocked() returns true
C8_Witness ==
    /\ maxc = Some(1) /\ hist.sets = 2 /\ hist.clears = 1
    /\ \E t \in Threads : pc[t] = "unlock" /\ op[t] = "blocked" /\ ret[t] = Some(TRUE)

\* max = 1: a set() that found the counter at the ceiling is about to return
C8_WitnessSaturated ==
    \E t \in Threads :
        /\ maxc # None /\ Get(maxc) >= 1
        /\ pc[t] = "unlock" /\ op[t] = "set" /\ val[t] = Get(maxc) + 1

\* the completed calls end with k >= 1 set() from counter 0 and then plain clear()
Accumulated ==
    /\ maxc = None
    /\ hist.base = 0
    /\ hist.sets >= 1

C9_State ==
    /\ (Quiet /\ Accumulated) =>
           IF hist.clears < hist.sets
           THEN counter = hist.sets - hist.clears /\ event
           ELSE counter = 0 /\ ~event
    /\ (Quiet /\ maxc = None /\ lastOp = "cclear") => (counter = 0 /\ ~event)
    /\ \A t \in Threads :
        /\ (Accumulated /\ pc[t] = "unlock" /\ op[t] = "blocked")
               => ret[t] = Some(hist.clears >= hist.sets)
        /\ (maxc = None /\ lastOp = "cclear" /\ pc[t] = "unlock" /\ op[t] = "blocked")
               => ret[t] = Some(TRUE)

C9_Wait ==
    \A t \in Threads :
        (Quiet /\ Accumulated /\ pc[t] = "wait_call" /\ pc'[t] # "wait_call")
            => (pc'[t] = "idle" <=> hist.clears < hist.sets)

\* C9: on an unbounded CountedEvent, after k >= 1 set() from counter 0 a
\* wait() returns without blocking and blocked() returns false until k plain
\* clear() (or one clear(completely=True)) have completed; from then on
\* blocked() returns true and wait() blocks.
C9_SignalsAccumulate ==
    []C9_State /\ [][C9_Wait]_vars

\* two set() and one clear(): one signal is left and blocked() returns false
C9_Witness ==
    /\ Accumulated
    /\ hist.sets = 2 /\ hist.clears = 1 /\ counter = 1 /\ event
    /\ \E t \in Threads : pc[t] = "unlock" /\ op[t] = "blocked" /\ ret[t] = Some(FALSE)

\* one set(), one clear(), and the wait() that follows blocks
C9_WitnessDrained ==
    /\ Quiet /\ Accumulated
    /\ hist.sets = 1 /\ hist.clears = 1
    /\ \E t \in Threads : pc[t] = "wait_blocked"

C10_State ==
    /\ (Quiet /\ lastOp = "cclear") => (counter = 0 /\ ~event)
    /\ \A t \in Threads :
        /\ (pc[t] = "unlock" /\ op[t] = "cclear") => (counter = 0 /\ ~event)
        /\ (lastOp = "cclear" /\ pc[t] = "unlock" /\ op[t] = "blocked")
               => ret[t] = Some(TRUE)

C10_Wait ==
    \A t \in Threads :
        \* a wait() that starts right after the reset blocks
        /\ (Quiet /\ lastOp = "cclear" /\ pc[t] = "wait_call" /\ pc'[t] # "wait_call")
               => pc'[t] = "wait_blocked"
        \* a wait(None) returns only once notified, and only set() notifies
        /\ (pc[t] = "wait_blocked" /\ tmo[t] = None /\ pc'[t] # "wait_blocked")
               => t \in notified
        /\ (pc[t] = "wait_blocked" /\ t \notin notified /\ t \in notified')
               => \E u \in Threads : op[u] = "set" /\ pc[u] = "ev_set"

\* C10: clear(completely=True) ends, whatever the counter and the ceiling
\* were, with counter 0 and the event unsignaled; then blocked() returns true
\* and a wait(None) blocks until a set() releases it.
C10_ClearCompletely ==
    []C10_State /\ [][C10_Wait]_vars

\* clear(completely=True) is about to return after finding counter >= 2
C10_Witness ==
    \E t \in Threads :
        /\ pc[t] = "unlock" /\ op[t] = "cclear"
        /\ sat >= 2 /\ counter = 0 /\ ~event

\* a wait(None) is blocked after a clear(completely=True)
C10_WitnessBlocked ==
    /\ Quiet /\ lastOp = "cclear"
    /\ \E t \in Threads : pc[t] = "wait_blocked" /\ tmo[t] = None /\ t \notin notified

\* C11 (as stated): the value blocked() returns is true iff counter == 0,
\* equivalently iff the event is unsignaled, at the instant blocked() holds
\* the mutex (no set()/clear() is half-applied then).
C11_BlockedIffZeroIffUnsignaled ==
    \A t \in Threads :
        (pc[t] = "unlock" /\ op[t] = "blocked")
            => (ret[t] = Some(counter = 0) /\ ret[t] = Some(~event))

\* wait() hands no value back, and a blocked() that reads counter 0 returns true
C12_State ==
    \A t \in Threads :
        /\ op[t] = "wait" => ret[t] = None
        /\ (pc[t] = "unlock" /\ op[t] = "blocked" /\ counter = 0) => ret[t] = Some(TRUE)

\* a wait(T) that returns without having been notified changes nothing
C12_Timeout ==
    \A t \in Threads :
        (/\ pc[t] = "wait_blocked" /\ tmo[t] # None /\ t \notin notified
         /\ pc'[t] = "idle")
            => (counter' = counter /\ event' = event)

\* C12: a wait(T) with a finite T eventually returns, signaled or not; it
\* returns no value, and when it returns on the timeout the counter and the
\* event are as before, so that blocked() still returns true at counter 0.
C12_TimedWaitReturns ==
    /\ \A t \in Threads : (op[t] = "wait" /\ tmo[t] # None) ~> (pc[t] = "idle")
    /\ []C12_State
    /\ [][C12_Timeout]_vars

\* the only call so far is a wait(T), blocked on the never-signaled event
C12_Witness ==
    /\ budget = MaxFairOps - 1
    /\ counter = 0 /\ ~event
    /\ \E t \in Threads : pc[t] = "wait_blocked" /\ tmo[t] # None /\ t \notin notified

\* the counter the claim gives an instance built with value v and ceiling m
NormalisedValue(v, m) ==
    IF v <= 0 THEN 0 ELSE IF m = None THEN v ELSE Min(v, Get(m))

C15_State ==
    /\ constructed => start = NormalisedValue(initValue, maxc)
    /\ (Quiet /\ lastOp = "init")
           => (counter = NormalisedValue(initValue, maxc) /\ (event <=> initValue > 0))

C15_Wait ==
    \A t \in Threads :
        (/\ Quiet /\ lastOp = "init" /\ initValue >= 1
         /\ pc[t] = "wait_call" /\ pc'[t] # "wait_call")
            => pc'[t] = "idle"

\* C15: __init__ leaves counter 0 when value <= 0 and min(value, max)
\* otherwise (value itself without a ceiling), and the event signaled iff
\* value > 0; a wait() on an instance built with value >= 1 returns at once,
\* before any set().
C15_ConstructorNormalises ==
    []C15_State /\ [][C15_Wait]_vars

\* built with a value above its ceiling; a wait() is called before any set()
C15_Witness ==
    /\ Quiet /\ lastOp = "init"
    /\ initValue >= 1 /\ maxc # None /\ initValue > Get(maxc)
    /\ \E t \in Threads : pc[t] = "wait_call"

\* a set() that is about to return has not lowered the counter it found
C13_State ==
    \A t \in Threads :
        (pc[t] = "unlock" /\ op[t] = "set") => counter >= val[t] - 1

C13_Frame ==
    \* no step of a wait() changes the counter or the event
    /\ \A t \in Threads :
           ((op[t] = "wait" \/ op'[t] = "wait") /\ (pc'[t] # pc[t] \/ op'[t] # op[t]))
               => (counter' = counter /\ event' = event)
    \* the counter changes only inside the critical section of a set() or clear()
    /\ (constructed /\ counter' # counter)
           => (mutex # Free /\ op[mutex] \in {"set", "clear", "cclear"})

\* C13: wait() leaves the counter and the event as they are, however it
\* returns; the counter changes only inside set() and clear(), and a set()
\* never lowers it, so the waiters a set() releases leave the counter alone.
C13_WaitConsumesNothing ==
    []C13_State /\ [][C13_Frame]_vars

\* one waiter released by a set() has returned, another is still to run, and
\* the counter is the 1 that set() left
C13_Witness ==
    /\ Quiet /\ counter = 1 /\ event
    /\ \E t, u \in Threads :
        /\ t # u
        /\ prev[t] = "wait" /\ pc[t] = "idle"
        /\ pc[u] = "wait_blocked" /\ u \in notified

\* C14 (as stated): when only thread t has ever called clear(), a blocked()
\* that t calls right after its wait(None) returned returns false.
C14_NoSpuriousWakeup ==
    \A t \in Threads :
        (/\ pc[t] = "unlock" /\ op[t] = "blocked"
         /\ prev[t] = "wait"
         /\ clearers \subseteq {t})
            => ret[t] = Some(FALSE)

====
